---- MODULE Spec2Model ----
(***************************************************************************)
(* Dictionary aggregation layer of kotoba.                                 *)
(*                                                                         *)
(*   - the entry codec: serializeEntries / unserializeEntries and the      *)
(*     NameMap they share (src/src/dict/dict.ts);                          *)
(*   - the Yomichan importer: importDict (src/unnamed/part_022);           *)
(*   - the batch loader: loadDicts (src/src/server.ts);                    *)
(*   - the adapters that make entries of the rows of jisho.org             *)
(*     (src/unnamed/part_023), of japanesepod101.com                       *)
(*     (src/unnamed/part_024) and of an imported dictionary                *)
(*     (src/unnamed/part_022), with the queries that deliver the rows;     *)
(*   - the web client's dictionary store: its reducer and epics            *)
(*     (src/web/client/src/store/dictionary.ts).                           *)
(*                                                                         *)
(* JavaScript values are modelled as follows: an Array is a sequence, an   *)
(* object literal with fixed fields is a record, a string is a string, a   *)
(* number is an integer.  A property read that may find nothing returns a  *)
(* record [found, val].  A call that may throw returns a record with a     *)
(* field threw.                                                            *)
(***************************************************************************)
EXTENDS Integers, Sequences, FiniteSets, TLC

VARIABLES
    names,      \* nameMap.names: the strings coded so far         (dict.ts:103)
    index,      \* nameMap.index: own properties, string -> code   (dict.ts:104)
    inputs,     \* the entries given to each serializeEntries call so far
    outputs,    \* the array each of those calls returned
    decoded,    \* what unserializeEntries made of the latest output
    imp,        \* per dictionary of the run: its importDict call
    load,       \* the loadDicts call that awaits them (server.ts:204)
    lookup,     \* a query of a source and the entries made of its rows
    store,      \* the client's dictionary State          (dictionary.ts:10-17)
    flights,    \* the ajax calls of requestEpic that are subscribed
    timer,      \* the SEARCH query that debounceTime holds, if any
    pathname,   \* history.location.pathname
    requested   \* the queries of the REQUEST actions dispatched so far

codecVars == <<names, index, inputs, outputs, decoded>>
importVars == <<imp, load>>
clientVars == <<store, flights, timer, pathname, requested>>
vars == <<names, index, inputs, outputs, decoded, imp, load, lookup,
          store, flights, timer, pathname, requested>>

(***************************************************************************)
(* Bounds of the model.                                                    *)
(***************************************************************************)
MaxCalls == 2       \* serializeEntries calls on one NameMap
MaxBatch == 2       \* entries per call

(***************************************************************************)
(* Entries (dict.ts:4-100).                                                *)
(***************************************************************************)
EntrySource == [Import |-> "I", Jisho |-> "J", JapanesePod |-> "P"]

Link(uri, text) == [uri |-> uri, text |-> text]

EntryEnglish(glossary, tags, info, links) ==
    [glossary |-> glossary, tags |-> tags, info |-> info, links |-> links]

Entry(source, origin, expression, reading, forms, readings, english, tags, score) ==
    [source |-> source, origin |-> origin, expression |-> expression,
     reading |-> reading, extra_forms |-> forms, extra_readings |-> readings,
     english |-> english, tags |-> tags, score |-> score]

\* One entry per source.  Between them: an origin and none, tags and none,
\* extra forms and none, a tag shared by two entries ("P"), a name that reads
\* as a number ("1"), and a name that Object.prototype also has ("constructor").
EntryUniverse ==
    { Entry(EntrySource.Import, "JMdict", "ie", "ie-kana", <<>>, <<>>,
            <<EntryEnglish(<<"house">>, <<"n">>, <<>>, <<>>)>>,
            <<"P", "n">>, 100),
      Entry(EntrySource.Jisho, "", "uchi", "uchi-kana", <<"ke">>, <<"ke-kana">>,
            <<EntryEnglish(<<"home">>, <<"Noun">>, <<"1">>,
                           <<Link("see://ie", "ie")>>)>>,
            <<"jlpt-n5", "P">>, 0),
      Entry(EntrySource.JapanesePod, "", "kazoku", "kazoku-kana", <<>>, <<>>,
            <<EntryEnglish(<<"family">>, <<>>, <<"constructor">>, <<>>)>>,
            <<>>, 0 - 1) }

Batches == UNION { [1..n -> EntryUniverse] : n \in 0..MaxBatch }

RECURSIVE Flatten(_)
Flatten(ss) == IF ss = <<>> THEN <<>> ELSE Head(ss) \o Flatten(Tail(ss))

Range(s) == { s[i] : i \in DOMAIN s }

\* The strings of an entry that serializeEntries replaces by codes.
CodedStrings(e) ==
    <<e.origin>> \o e.tags
        \o Flatten([i \in DOMAIN e.english |-> e.english[i].tags \o e.english[i].info])

NameUniverse == {""} \cup UNION { Range(CodedStrings(e)) : e \in EntryUniverse }

(***************************************************************************)
(* The NameMap and mapName (dict.ts:110-150).                              *)
(***************************************************************************)
\* nameMap.index is created as the literal {} (dict.ts:113), so a read of
\* index[name] that finds no own property goes on to Object.prototype.
ObjectPrototypeKeys == {"constructor", "toString", "valueOf", "hasOwnProperty"}

\* What such a read returns: a function object, which is no number and is truthy.
ObjectFn == -1

NameMap(ns, idx) == [names |-> ns, index |-> idx]

EmptyIndex == [k \in {} |-> 0]

\* index[key]
IndexGet(idx, key) ==
    IF key \in DOMAIN idx THEN [found |-> TRUE, val |-> idx[key]]
    ELSE IF key \in ObjectPrototypeKeys THEN [found |-> TRUE, val |-> ObjectFn]
    ELSE [found |-> FALSE, val |-> 0]

\* !v for the result of a property read: undefined and 0 are falsy.
Falsy(got) == ~got.found \/ got.val = 0

\* index[key] = val
IndexSet(idx, key, val) ==
    [k \in DOMAIN idx \cup {key} |-> IF k = key THEN val ELSE idx[k]]

\* A mapName that never looks a name up: every call appends.
mapName_NoReuse(nm, name) ==
    IF name = "" THEN [code |-> 0, nm |-> nm]
    ELSE LET pushed == Append(nm.names, name)
         IN  [code |-> Len(pushed),
              nm |-> NameMap(pushed, IndexSet(nm.index, name, Len(pushed)))]

\* A mapName that takes the length of names before the push.
mapName_OffByOne(nm, name) ==
    IF name = "" THEN [code |-> 0, nm |-> nm]
    ELSE IF Falsy(IndexGet(nm.index, name))
         THEN [code |-> Len(nm.names),
               nm |-> NameMap(Append(nm.names, name),
                              IndexSet(nm.index, name, Len(nm.names)))]
         ELSE [code |-> IndexGet(nm.index, name).val, nm |-> nm]

\* A mapName that puts a new name before the others.
mapName_Unshift(nm, name) ==
    IF name = "" THEN [code |-> 0, nm |-> nm]
    ELSE IF Falsy(IndexGet(nm.index, name))
         THEN [code |-> Len(nm.names) + 1,
               nm |-> NameMap(<<name>> \o nm.names,
                              IndexSet(nm.index, name, Len(nm.names) + 1))]
         ELSE [code |-> IndexGet(nm.index, name).val, nm |-> nm]

\* mapName(name): the code, and the NameMap as the call leaves it.
mapName(nm, name) ==
    IF name = "" THEN [code |-> 0, nm |-> nm]
    ELSE IF Falsy(IndexGet(nm.index, name))
         THEN LET pushed == Append(nm.names, name)
                  idx == IndexSet(nm.index, name, Len(pushed))
              IN  [code |-> IndexGet(idx, name).val, nm |-> NameMap(pushed, idx)]
         ELSE [code |-> IndexGet(nm.index, name).val, nm |-> nm]

\* mapNames(names): names.map(mapName), left to right.
RECURSIVE mapNames(_, _)
mapNames(nm, ns) ==
    IF ns = <<>> THEN [codes |-> <<>>, nm |-> nm]
    ELSE LET h == mapName(nm, Head(ns))
             t == mapNames(h.nm, Tail(ns))
         IN  [codes |-> <<h.code>> \o t.codes, nm |-> t.nm]

\* eng.links.map(link => [link.uri, link.text])
LinkPairs(links) == [i \in DOMAIN links |-> <<links[i].uri, links[i].text>>]

\* it.english.map(eng => [glossary, mapNames(tags), mapNames(info), links])
RECURSIVE serializeEnglish(_, _)
serializeEnglish(nm, engs) ==
    IF engs = <<>> THEN [rows |-> <<>>, nm |-> nm]
    ELSE LET eng == Head(engs)
             tg == mapNames(nm, eng.tags)
             nf == mapNames(tg.nm, eng.info)
             t == serializeEnglish(nf.nm, Tail(engs))
         IN  [rows |-> << <<eng.glossary, tg.codes, nf.codes, LinkPairs(eng.links)>> >>
                          \o t.rows,
              nm |-> t.nm]

\* An array with the tag codes before the extra forms and readings.
serializeEntry_TagsFirst(nm, it) ==
    LET og == mapName(nm, it.origin)
        tg == mapNames(og.nm, it.tags)
        en == serializeEnglish(tg.nm, it.english)
    IN  [row |-> <<it.source, og.code, it.expression, it.reading, tg.codes,
                   it.extra_forms, it.extra_readings, it.score, en.rows>>,
         nm |-> en.nm]

\* The array built for one entry: its elements are evaluated in order, so the
\* origin is coded first, then the tags, then the senses.
serializeEntry(nm, it) ==
    LET og == mapName(nm, it.origin)
        tg == mapNames(og.nm, it.tags)
        en == serializeEnglish(tg.nm, it.english)
    IN  [row |-> <<it.source, og.code, it.expression, it.reading, it.extra_forms,
                   it.extra_readings, tg.codes, it.score, en.rows>>,
         nm |-> en.nm]

\* serializeEntries(entries, nameMap): the rows and the NameMap afterwards.
RECURSIVE serializeEntries(_, _)
serializeEntries(entries, nm) ==
    IF entries = <<>> THEN [rows |-> <<>>, nm |-> nm]
    ELSE LET h == serializeEntry(nm, Head(entries))
             t == serializeEntries(Tail(entries), h.nm)
         IN  [rows |-> <<h.row>> \o t.rows, nm |-> t.nm]

(***************************************************************************)
(* unserializeEntries (dict.ts:155-186).                                   *)
(***************************************************************************)
\* The value undefined where a string is expected.
Undefined == "<undefined>"

NotFound == [found |-> FALSE, val |-> 0]

ValueOf(got) == IF got.found THEN got.val ELSE Undefined

\* it.<key> for an Array it and a key that is no index: serializeEntries
\* returns Arrays, whose only named own property is length.
ArrayProp(arr, key) ==
    IF key = "length" THEN [found |-> TRUE, val |-> Len(arr)] ELSE NotFound

Digit(d) == <<"0", "1", "2", "3", "4", "5", "6", "7", "8", "9">>[d + 1]

\* The property key a value used as index[value] is converted to.
RECURSIVE NumToKey(_)
NumToKey(n) ==
    IF n = ObjectFn THEN "function Object() { [native code] }"
    ELSE IF n < 10 THEN Digit(n)
    ELSE NumToKey(n \div 10) \o Digit(n % 10)

\* names[got] for the result of a property read: position got.val, from 0.
NamesAt(ns, got) ==
    IF got.found /\ got.val >= 0 /\ got.val < Len(ns) THEN ns[got.val + 1]
    ELSE Undefined

\* mapIndex(index) for a code: index ? names[nameMap.index[index]] : ''
mapIndex(nm, code) ==
    IF code = 0 THEN ""
    ELSE NamesAt(nm.names, IndexGet(nm.index, NumToKey(code)))

\* mapIndex applied to the result of a property read.
mapIndexOf(nm, got) == IF Falsy(got) THEN "" ELSE mapIndex(nm, got.val)

\* indexes.map(mapIndex) on an Array
mapIndexes(nm, codes) == [i \in DOMAIN codes |-> mapIndex(nm, codes[i])]

TypeError == [threw |-> TRUE, error |-> "TypeError", entries |-> <<>>]

Returned(es) == [threw |-> FALSE, error |-> "", entries |-> es]

\* One element of it.english.map(...): eng is an Array as well.
unserializeEnglish(nm, eng) ==
    LET tags == ArrayProp(eng, "tags")
        info == ArrayProp(eng, "info")
        links == ArrayProp(eng, "links")
    IN  IF ~tags.found \/ ~info.found \/ ~links.found THEN TypeError
        ELSE Returned(<<EntryEnglish(ValueOf(ArrayProp(eng, "glossary")),
                                     mapIndexes(nm, tags.val),
                                     mapIndexes(nm, info.val),
                                     [i \in DOMAIN links.val |->
                                         Link(links.val[i][1], links.val[i][2])])>>)

RECURSIVE unserializeEnglishes(_, _)
unserializeEnglishes(nm, engs) ==
    IF engs = <<>> THEN Returned(<<>>)
    ELSE LET h == unserializeEnglish(nm, Head(engs))
             t == unserializeEnglishes(nm, Tail(engs))
         IN  IF h.threw THEN h
             ELSE IF t.threw THEN t
             ELSE Returned(h.entries \o t.entries)

\* The object built for one row.  Its fields are evaluated in order: tags is
\* the first whose evaluation calls a method of what the property read gave.
unserializeEntry(nm, it) ==
    LET tags == ArrayProp(it, "tags")
        english == ArrayProp(it, "english")
    IN  IF ~tags.found THEN TypeError
        ELSE IF ~english.found THEN TypeError
        ELSE LET en == unserializeEnglishes(nm, english.val)
             IN  IF en.threw THEN en
                 ELSE Returned(<<Entry(ValueOf(ArrayProp(it, "source")),
                                       mapIndexOf(nm, ArrayProp(it, "origin")),
                                       ValueOf(ArrayProp(it, "expression")),
                                       ValueOf(ArrayProp(it, "reading")),
                                       ValueOf(ArrayProp(it, "extra_forms")),
                                       ValueOf(ArrayProp(it, "extra_readings")),
                                       en.entries,
                                       mapIndexes(nm, tags.val),
                                       ValueOf(ArrayProp(it, "score")))>>)

\* unserializeEntries(data, nameMap): data.map(...), which throws what the
\* callback throws.
RECURSIVE unserializeEntries(_, _)
unserializeEntries(data, nm) ==
    IF data = <<>> THEN Returned(<<>>)
    ELSE LET h == unserializeEntry(nm, Head(data))
         IN  IF h.threw THEN h
             ELSE LET t == unserializeEntries(Tail(data), nm)
                  IN  IF t.threw THEN t ELSE Returned(h.entries \o t.entries)

(***************************************************************************)
(* The codec as a state machine: a caller that serializes batches with one *)
(* NameMap and reads the latest output back.                               *)
(***************************************************************************)
NoDecode == [call |-> 0, threw |-> FALSE, error |-> "", entries |-> <<>>]

ImportIdle == <<>>

LoadIdle == [pc |-> "idle", error |-> "", dicts |-> <<>>]

LookupIdle == [source |-> "none", pc |-> "idle"]

\* The client before any action: INITIAL_STATE (dictionary.ts:19-23), data
\* undefined (the empty sequence), no call subscribed, nothing debounced.
INITIAL_STATE == [query |-> "", failed |-> FALSE, loading |-> FALSE, data |-> <<>>]

ClientIdle ==
    /\ store = INITIAL_STATE
    /\ flights = {}
    /\ timer = <<>>
    /\ pathname = "/"
    /\ requested = <<>>

Init ==
    /\ names = <<>>
    /\ index = EmptyIndex
    /\ inputs = <<>>
    /\ outputs = <<>>
    /\ decoded = NoDecode
    /\ imp = ImportIdle
    /\ load = LoadIdle
    /\ lookup = LookupIdle
    /\ ClientIdle

\* serializeEntries(entries, nameMap)
Serialize(entries) ==
    /\ Len(inputs) < MaxCalls
    /\ LET r == serializeEntries(entries, NameMap(names, index))
       IN  /\ names' = r.nm.names
           /\ index' = r.nm.index
           /\ outputs' = Append(outputs, r.rows)
    /\ inputs' = Append(inputs, entries)
    /\ decoded' = NoDecode
    /\ UNCHANGED <<importVars, lookup, clientVars>>

\* unserializeEntries(data, nameMap) on the latest output
Unserialize ==
    /\ outputs # <<>>
    /\ decoded.call = 0
    /\ LET r == unserializeEntries(outputs[Len(outputs)], NameMap(names, index))
       IN  decoded' = [call |-> Len(outputs), threw |-> r.threw,
                       error |-> r.error, entries |-> r.entries]
    /\ UNCHANGED <<names, index, inputs, outputs>>
    /\ UNCHANGED <<importVars, lookup, clientVars>>

Next ==
    \/ \E entries \in Batches : Serialize(entries)
    \/ Unserialize

Spec == Init /\ [][Next]_vars

(***************************************************************************)
(* The dictionary folders and archives importDict is given                 *)
(* (part_022:236-274).  A file name is kept as its three parts, a file as  *)
(* its name and content, a string that strToList may be given as the       *)
(* sequence of its words and blanks.                                       *)
(***************************************************************************)
MaxFiles == 2       \* files of a dictionary besides index.json
MaxDicts == 2       \* dictionaries of one loadDicts call

FileName(stem, suffix, ext) == [stem |-> stem, suffix |-> suffix, ext |-> ext]

IndexJson == FileName("index", "", ".json")

FileNames ==
    { FileName("term", "_bank_1", ".json"), FileName("term", "_bank_2", ".json"),
      FileName("tag", "_bank_1", ".json"), FileName("foo", "_bank", ".json"),
      FileName("foo", "_bank_1", ".json"),
      FileName("term", "", ".json"), FileName("notes", "", ".txt") }

\* A term bank row: [expression, reading, definitionTags, rules, score,
\* glossary, sequence, termTags] (part_022:303).
TermRow(expression, sequence) ==
    <<expression, <<expression \o "-kana">>, <<"n">>, <<"v1">>, 10,
      <<expression \o "-gloss">>, sequence, <<"P", " ", "n">>>>

Rows531 == <<TermRow("a", 5), TermRow("b", 1), TermRow("c", 3)>>
Rows31 == <<TermRow("d", 3), TermRow("e", 1)>>

\* A file: whether readFile returns its text, whether JSON.parse accepts the
\* text, and the value if so.
Json(rows) == [readable |-> TRUE, parses |-> TRUE, json |-> rows]
Malformed == [readable |-> TRUE, parses |-> FALSE, json |-> <<>>]
Unreadable == [readable |-> FALSE, parses |-> FALSE, json |-> <<>>]

Contents == {Malformed, Unreadable, Json(Rows531), Json(Rows31)}

Files == [name : FileNames, content : Contents]

\* Directory listings: no two files of one name, in any order.
FileLists ==
    { fs \in UNION { [1..n -> Files] : n \in 0..MaxFiles } :
        \A i \in DOMAIN fs : \A j \in DOMAIN fs : i # j => fs[i].name # fs[j].name }

\* A dictionary: the extension of its path, its index.json ("absent",
\* "malformed" or "ok") and its other files.
DictInputs == [ext : {"", ".zip"}, index : {"absent", "malformed", "ok"}, files : FileLists]

\* The dictionaries of the loadDicts runs: without files or with one term
\* bank, and folders with one or two banks of the kind foo.
BatchInputs ==
    { d \in DictInputs :
        /\ d.index # "malformed"
        /\ \/ /\ Len(d.files) <= 1
              /\ \A i \in DOMAIN d.files :
                    /\ d.files[i].name = FileName("term", "_bank_1", ".json")
                    /\ d.files[i].content # Json(Rows31)
           \/ /\ d.ext = ""
              /\ d.index = "ok"
              /\ [i \in DOMAIN d.files |-> d.files[i].name]
                    \in { <<FileName("foo", "_bank", ".json")>>,
                          <<FileName("foo", "_bank", ".json"),
                            FileName("foo", "_bank_1", ".json")>> }
              /\ \A i \in DOMAIN d.files : d.files[i].content = Json(Rows31) }

Summary == [title |-> "JMdict", format |-> 3, revision |-> "r1", sequenced |-> TRUE]

(***************************************************************************)
(* importDict (part_022:236-370).                                          *)
(***************************************************************************)
ToLowerCase(ext) ==
    IF ext = ".JSON" THEN ".json" ELSE IF ext = ".ZIP" THEN ".zip" ELSE ext

\* path.extname(basePath).toLowerCase() === '.zip'
IsArchive(input) == ToLowerCase(input.ext) = ".zip"

\* filterBanks
filterBanks(name) == name # IndexJson /\ ToLowerCase(name.ext) = ".json"

\* The files importDict reads as banks, in the order of the listing.
BankFiles(input) == SelectSeq(input.files, LAMBDA f : filterBanks(f.name))

\* The suffixes that /(_bank(_\d+)?)?\.json$/ removes with the extension.
BankSuffixes == {"", "_bank", "_bank_1", "_bank_2"}

\* it.name.replace(/(_bank(_\d+)?)?\.json$/, '')
KindOf(name) ==
    IF name.ext = ".json"
    THEN IF name.suffix \in BankSuffixes THEN name.stem ELSE name.stem \o name.suffix
    ELSE name.stem \o name.suffix \o name.ext

IsBlank(token) == token = " "

\* s.split(/\s+/) from token i on, cur being the word read so far.
RECURSIVE SplitFrom(_, _, _)
SplitFrom(s, i, cur) ==
    IF i > Len(s) THEN <<cur>>
    ELSE IF IsBlank(s[i])
         THEN IF i > 1 /\ IsBlank(s[i - 1]) THEN SplitFrom(s, i + 1, cur)
              ELSE <<cur>> \o SplitFrom(s, i + 1, "")
         ELSE SplitFrom(s, i + 1, cur \o s[i])

\* strToList(s): s ? s.split(/\s+/) : []
strToList(s) == IF s = <<>> THEN <<>> ELSE SplitFrom(s, 1, "")

\* toMeta(row)
toMeta(row) == [expression |-> row[1], mode |-> row[2], data |-> row[3]]

ImportedTerm(row) ==
    [expression |-> row[1], reading |-> row[2],
     definitionTags |-> strToList(row[3]), rules |-> strToList(row[4]),
     score |-> row[5], glossary |-> row[6], sequence |-> row[7],
     termTags |-> strToList(row[8])]

ImportedKanji(row) ==
    [character |-> row[1], onyomi |-> strToList(row[2]),
     kunyomi |-> strToList(row[3]), tags |-> strToList(row[4]),
     meanings |-> row[5], stats |-> row[6]]

ImportedTag(row) ==
    [name |-> row[1], category |-> row[2], order |-> row[3], notes |-> row[4],
     score |-> row[5]]

\* new ImportedDict() with the summary and the empty collections (280-294).
NewDict(summary, path) ==
    [title |-> summary.title, format |-> summary.format,
     revision |-> summary.revision, sequenced |-> summary.sequenced,
     path |-> path,
     terms |-> <<>>, kanjis |-> <<>>, tags |-> <<>>, kanjiMeta |-> <<>>,
     termMeta |-> <<>>]

\* A loop turn that takes the rows of a file of any other kind for terms.
MergeFile_UnknownAsTerms(st, file) ==
    LET kind == KindOf(file.name)
        data == file.json
    IN  CASE kind = "tag" ->
                [st EXCEPT !.out.tags = @ \o [i \in DOMAIN data |-> ImportedTag(data[i])]]
          [] OTHER ->
                [st EXCEPT !.out.terms = @ \o [i \in DOMAIN data |-> ImportedTerm(data[i])]]

\* A loop turn that warns about every file of another kind.
MergeFile_AlwaysWarns(st, file) ==
    LET kind == KindOf(file.name)
        data == file.json
    IN  CASE kind = "term" ->
                [st EXCEPT !.out.terms = @ \o [i \in DOMAIN data |-> ImportedTerm(data[i])]]
          [] kind = "tag" ->
                [st EXCEPT !.out.tags = @ \o [i \in DOMAIN data |-> ImportedTag(data[i])]]
          [] OTHER -> [st EXCEPT !.log = Append(@, kind)]

\* One turn of the loop over files (297-354): st holds out, flagged and the
\* warnings logged.
MergeFile(st, file) ==
    LET kind == KindOf(file.name)
        data == file.json
    IN  CASE kind = "term" ->
                [st EXCEPT !.out.terms = @ \o [i \in DOMAIN data |-> ImportedTerm(data[i])]]
          [] kind = "kanji" ->
                [st EXCEPT !.out.kanjis = @ \o [i \in DOMAIN data |-> ImportedKanji(data[i])]]
          [] kind = "tag" ->
                [st EXCEPT !.out.tags = @ \o [i \in DOMAIN data |-> ImportedTag(data[i])]]
          [] kind = "kanji_meta" ->
                [st EXCEPT !.out.kanjiMeta = @ \o [i \in DOMAIN data |-> toMeta(data[i])]]
          [] kind = "term_meta" ->
                [st EXCEPT !.out.termMeta = @ \o [i \in DOMAIN data |-> toMeta(data[i])]]
          [] OTHER ->
                IF kind \in st.flagged THEN st
                ELSE [st EXCEPT !.log = Append(@, kind), !.flagged = @ \cup {kind}]

RECURSIVE MergeFiles(_, _)
MergeFiles(st, files) ==
    IF files = <<>> THEN st ELSE MergeFiles(MergeFile(st, Head(files)), Tail(files))

\* s with t put after its last element whose sequence is not greater.
RECURSIVE InsertBySequence(_, _)
InsertBySequence(s, t) ==
    IF s = <<>> THEN <<t>>
    ELSE IF s[Len(s)].sequence - t.sequence <= 0 THEN Append(s, t)
    ELSE Append(InsertBySequence(SubSeq(s, 1, Len(s) - 1), t), s[Len(s)])

RECURSIVE SortFrom(_, _)
SortFrom(done, rest) ==
    IF rest = <<>> THEN done
    ELSE SortFrom(InsertBySequence(done, Head(rest)), Tail(rest))

\* No sort: the terms stay in the order of the files.
sortTerms_Unsorted(terms) == terms

\* out.terms.sort((a, b) => a.sequence - b.sequence): Array.prototype.sort is
\* stable (ECMAScript 2019, Node 11 and later).
sortTerms(terms) == SortFrom(<<>>, terms)

\* The synchronous part of importDict after the reads (280-359).
ParseData(summary, path, files) ==
    LET st == MergeFiles([out |-> NewDict(summary, path), flagged |-> {},
                          log |-> <<>>], files)
    IN  [out |-> [st.out EXCEPT !.terms = sortTerms(@)], log |-> st.log]

(***************************************************************************)
(* importDict as a process: one step per continuation of the async         *)
(* function, the reads of the bank files completing in any order.          *)
(***************************************************************************)
BasePath(input) == "import/jmdict" \o input.ext

\* The call as importDict(basePath) leaves it at its first await.
ImportCall(input) ==
    [input |-> input,
     pc |-> "manifest",     \* manifest, readdir, banks, done or failed
     issued |-> {},         \* the bank files whose read was started
     read |-> {},           \* those read and parsed
     order |-> <<>>,        \* the same, in the order in which they completed
     error |-> "",          \* what the promise was rejected with
     result |-> <<>>,       \* <<the ImportedDict>> once returned
     log |-> <<>>]          \* kinds warned about on console.error

Rejected(call, error) == [call EXCEPT !.pc = "failed", !.error = error]

\* Up to the summary (247-254 for an archive, 264 for a folder).  An archive
\* is then asked for its bank files at once (255-262).
ManifestRead(d) ==
    /\ d \in DOMAIN imp
    /\ imp[d].pc = "manifest"
    /\ LET input == imp[d].input
       IN  imp' = [imp EXCEPT ![d] =
              IF input.index = "absent"
              THEN IF IsArchive(input) THEN Rejected(@, "NotFoundError")
                   ELSE Rejected(@, "ENOENT")
              ELSE IF input.index = "malformed" THEN Rejected(@, "SyntaxError")
              ELSE IF IsArchive(input)
                   THEN [@ EXCEPT !.pc = "banks", !.issued = DOMAIN BankFiles(input)]
                   ELSE [@ EXCEPT !.pc = "readdir"]]
    /\ UNCHANGED <<load, codecVars, lookup, clientVars>>

\* readdir(basePath) returns and the reads of the bank files start (265-272).
ReadDir(d) ==
    /\ d \in DOMAIN imp
    /\ imp[d].pc = "readdir"
    /\ imp' = [imp EXCEPT ![d].pc = "banks",
                          ![d].issued = DOMAIN BankFiles(imp[d].input)]
    /\ UNCHANGED <<load, codecVars, lookup, clientVars>>

\* A read that takes a file it cannot read or parse for a file without rows.
BankRead_SkipsFailed(d, i) ==
    /\ d \in DOMAIN imp
    /\ imp[d].pc = "banks"
    /\ i \in imp[d].issued \ imp[d].read
    /\ imp' = [imp EXCEPT ![d].read = @ \cup {i}, ![d].order = Append(@, i)]
    /\ UNCHANGED <<load, codecVars, lookup, clientVars>>

\* The read of bank file i completes and its text is parsed (259, 270); a
\* failure of either rejects the Promise.all and with it the call.
BankRead(d, i) ==
    /\ d \in DOMAIN imp
    /\ imp[d].pc = "banks"
    /\ i \in imp[d].issued \ imp[d].read
    /\ imp' = [imp EXCEPT ![d] =
          IF ~BankFiles(@.input)[i].content.readable THEN Rejected(@, "EACCES")
          ELSE IF ~BankFiles(@.input)[i].content.parses
               THEN Rejected(@, "SyntaxError")
               ELSE [@ EXCEPT !.read = @ \cup {i}, !.order = Append(@, i)]]
    /\ UNCHANGED <<load, codecVars, lookup, clientVars>>

\* A merge that takes the files in the order in which their reads completed.
Merge_InCompletionOrder(d) ==
    /\ d \in DOMAIN imp
    /\ imp[d].pc = "banks"
    /\ imp[d].read = imp[d].issued
    /\ LET input == imp[d].input
           banks == BankFiles(input)
           done == imp[d].order
           files == [k \in DOMAIN done |->
                        [name |-> banks[done[k]].name,
                         json |-> banks[done[k]].content.json]]
           r == ParseData(Summary, BasePath(input), files)
       IN  imp' = [imp EXCEPT ![d].pc = "done", ![d].result = <<r.out>>,
                              ![d].log = r.log]
    /\ UNCHANGED <<load, codecVars, lookup, clientVars>>

\* Every read is done: files holds what Promise.all resolved to, one element
\* per bank file in the order of the listing; the rows are merged, the terms
\* sorted and the ImportedDict returned (280-359).
Merge(d) ==
    /\ d \in DOMAIN imp
    /\ imp[d].pc = "banks"
    /\ imp[d].read = imp[d].issued
    /\ LET input == imp[d].input
           banks == BankFiles(input)
           files == [i \in DOMAIN banks |->
                        [name |-> banks[i].name, json |-> banks[i].content.json]]
           r == ParseData(Summary, BasePath(input), files)
       IN  imp' = [imp EXCEPT ![d].pc = "done", ![d].result = <<r.out>>,
                              ![d].log = r.log]
    /\ UNCHANGED <<load, codecVars, lookup, clientVars>>

CodecIdle ==
    /\ names = <<>>
    /\ index = EmptyIndex
    /\ inputs = <<>>
    /\ outputs = <<>>
    /\ decoded = NoDecode

InitImport ==
    /\ CodecIdle
    /\ imp \in { <<ImportCall(input)>> : input \in DictInputs }
    /\ load = LoadIdle
    /\ lookup = LookupIdle
    /\ ClientIdle

NextImport ==
    \/ \E d \in DOMAIN imp : ManifestRead(d)
    \/ \E d \in DOMAIN imp : ReadDir(d)
    \/ \E d \in DOMAIN imp : \E i \in imp[d].issued : BankRead(d, i)
    \/ \E d \in DOMAIN imp : Merge(d)

SpecImport == InitImport /\ [][NextImport]_vars

(***************************************************************************)
(* loadDicts (server.ts:204-216): importDict is called for every entry of  *)
(* the import folder and the calls are awaited with Promise.all.           *)
(***************************************************************************)
InitBatch ==
    /\ CodecIdle
    /\ imp \in UNION { [1..n -> { ImportCall(input) : input \in BatchInputs }] :
                       n \in 1..MaxDicts }
    /\ load = [pc |-> "awaiting", error |-> "", dicts |-> <<>>]
    /\ lookup = LookupIdle
    /\ ClientIdle

\* Promise.all rejects with the rejection of a call: loadDicts throws at its
\* await, dicts is never assigned and nothing of 211-274 runs.
LoadReject ==
    /\ load.pc = "awaiting"
    /\ \E d \in DOMAIN imp :
          /\ imp[d].pc = "failed"
          /\ load' = [pc |-> "rejected", error |-> imp[d].error, dicts |-> <<>>]
    /\ UNCHANGED <<imp, codecVars, lookup, clientVars>>

\* Every call returned: dicts holds every ImportedDict and is processed.
LoadProcess ==
    /\ load.pc = "awaiting"
    /\ \A d \in DOMAIN imp : imp[d].pc = "done"
    /\ load' = [pc |-> "processed", error |-> "",
                dicts |-> [d \in DOMAIN imp |-> imp[d].result[1]]]
    /\ UNCHANGED <<imp, codecVars, lookup, clientVars>>

NextBatch ==
    \/ \E d \in DOMAIN imp : ManifestRead(d)
    \/ \E d \in DOMAIN imp : ReadDir(d)
    \/ \E d \in DOMAIN imp : \E i \in imp[d].issued : BankRead(d, i)
    \/ \E d \in DOMAIN imp : Merge(d)
    \/ LoadReject
    \/ LoadProcess

SpecBatch == InitBatch /\ [][NextBatch]_vars

(***************************************************************************)
(* The rows of jisho.org and EntryFromJisho (part_023:19-193).             *)
(***************************************************************************)
MaxRows == 3        \* rows of one reply, terms of one dictionary

\* a || b for strings: undefined and '' are falsy.
OrElse(a, b) == IF a \in {Undefined, ""} THEN b ELSE a

JishoJapanese(word, reading) == [word |-> word, reading |-> reading]

JishoEnglish(definitions, parts, tags, see, info, links) ==
    [english_definitions |-> definitions, parts_of_speech |-> parts,
     tags |-> tags, see_also |-> see, info |-> info, links |-> links]

SenseHouse ==
    JishoEnglish(<<"house", "home">>, <<"Noun">>, <<"Usually kana">>, <<"uchi">>,
                 <<"from ie">>, <<[text |-> "Wikipedia", url |-> "https://w/ie"]>>)

SenseFamily ==
    JishoEnglish(<<"family">>, <<"Noun", "Suffix">>, <<>>, <<"kazoku", "ie">>,
                 <<>>, <<>>)

JishoData(common, japanese, senses, jlpt, tags) ==
    [is_common |-> common, japanese |-> japanese, senses |-> senses,
     jlpt |-> jlpt, tags |-> tags]

\* Elements of body.data as the API sends them: three forms, one without a
\* word; one kana-only form and a tag sent twice; two forms and no sense; no
\* form at all.
JishoUniverse ==
    { JishoData(TRUE, <<JishoJapanese("ie", "ie-kana"),
                        JishoJapanese(Undefined, "uchi"),
                        JishoJapanese("ya", "ya-kana")>>,
                <<SenseHouse, SenseFamily>>, <<"jlpt-n5">>, <<"wanikani8">>),
      JishoData(FALSE, <<JishoJapanese(Undefined, "uchi")>>,
                <<SenseFamily>>, <<>>, <<"wanikani8", "wanikani8">>),
      JishoData(TRUE, <<JishoJapanese("ie", "ie-kana"), JishoJapanese("ke", "ke-kana")>>,
                <<>>, <<"jlpt-n5", "jlpt-n3">>, <<>>),
      JishoData(FALSE, <<>>, <<SenseHouse>>, <<>>, <<>>) }

\* response.body: meta.status and data.
JishoReplies ==
    { [status |-> 500, data |-> <<>>] }
        \cup { [status |-> 200, data |-> data] :
                 data \in UNION { [1..n -> JishoUniverse] : n \in 0..MaxRows } }

\* The loop of queryJisho over data (183-193): order is the position from 0,
\* a missing word becomes the reading, audio starts empty.
Sanitize(data) ==
    [i \in DOMAIN data |->
        [is_common |-> data[i].is_common,
         japanese |-> [k \in DOMAIN data[i].japanese |->
                          [word |-> OrElse(data[i].japanese[k].word,
                                           data[i].japanese[k].reading),
                           reading |-> data[i].japanese[k].reading,
                           audio |-> <<>>]],
         senses |-> data[i].senses, jlpt |-> data[i].jlpt, tags |-> data[i].tags,
         order |-> i - 1]]

\* A mapEnglish that puts the links of the source before the cross-references.
mapEnglish_LinksFirst(data) ==
    EntryEnglish(data.english_definitions,
                 data.parts_of_speech \o data.tags,
                 data.info,
                 [k \in DOMAIN data.links |-> Link(data.links[k].url, data.links[k].text)]
                     \o [k \in DOMAIN data.see_also |->
                            Link("see://" \o data.see_also[k], data.see_also[k])])

\* mapEnglish(data) (144-155)
mapEnglish(data) ==
    EntryEnglish(data.english_definitions,
                 data.parts_of_speech \o data.tags,
                 data.info,
                 [k \in DOMAIN data.see_also |->
                     Link("see://" \o data.see_also[k], data.see_also[k])]
                     \o [k \in DOMAIN data.links |->
                            Link(data.links[k].url, data.links[k].text)])

\* data.japanese.slice(1)
Slice1(s) == IF s = <<>> THEN <<>> ELSE Tail(s)

\* An adapter that takes the readings of all forms for the extra readings.
EntryFromJisho_AllReadings(data) ==
    Entry(EntrySource.Jisho, "", data.japanese[1].word, data.japanese[1].reading,
          [k \in DOMAIN Slice1(data.japanese) |-> Slice1(data.japanese)[k].word],
          [k \in DOMAIN data.japanese |-> data.japanese[k].reading],
          [k \in DOMAIN data.senses |-> mapEnglish(data.senses[k])],
          data.jlpt \o data.tags \o (IF data.is_common THEN <<"P">> ELSE <<>>),
          0 - data.order)

\* An adapter that scores a row by its order.
EntryFromJisho_ScoreIsOrder(data) ==
    Entry(EntrySource.Jisho, "", data.japanese[1].word, data.japanese[1].reading,
          [k \in DOMAIN Slice1(data.japanese) |-> Slice1(data.japanese)[k].word],
          [k \in DOMAIN Slice1(data.japanese) |-> Slice1(data.japanese)[k].reading],
          [k \in DOMAIN data.senses |-> mapEnglish(data.senses[k])],
          data.jlpt \o data.tags \o (IF data.is_common THEN <<"P">> ELSE <<>>),
          data.order)

\* An adapter that puts the tag of common words first.
EntryFromJisho_CommonFirst(data) ==
    Entry(EntrySource.Jisho, "", data.japanese[1].word, data.japanese[1].reading,
          [k \in DOMAIN Slice1(data.japanese) |-> Slice1(data.japanese)[k].word],
          [k \in DOMAIN Slice1(data.japanese) |-> Slice1(data.japanese)[k].reading],
          [k \in DOMAIN data.senses |-> mapEnglish(data.senses[k])],
          (IF data.is_common THEN <<"P">> ELSE <<>>) \o data.jlpt \o data.tags,
          0 - data.order)

\* EntryFromJisho(data) (122-143) for a row with a form; data.japanese[0].word
\* throws a TypeError for a row without one.  -data.order is -0 for order 0,
\* which equals 0 and is written 0 by JSON.stringify.
EntryFromJisho(data) ==
    Entry(EntrySource.Jisho, "", data.japanese[1].word, data.japanese[1].reading,
          [k \in DOMAIN Slice1(data.japanese) |-> Slice1(data.japanese)[k].word],
          [k \in DOMAIN Slice1(data.japanese) |-> Slice1(data.japanese)[k].reading],
          [k \in DOMAIN data.senses |-> mapEnglish(data.senses[k])],
          data.jlpt \o data.tags \o (IF data.is_common THEN <<"P">> ELSE <<>>),
          0 - data.order)

(***************************************************************************)
(* The rows of japanesepod101.com and EntryFromJapanesePod                 *)
(* (part_024:144-258).  The text of an element is the sequence of its      *)
(* words and blanks.                                                       *)
(***************************************************************************)
\* What querySelector returns: an element with its text, or null.
El(text) == [present |-> TRUE, text |-> text]
NoEl == [present |-> FALSE, text |-> <<>>]

RECURSIVE DropBlanks(_)
DropBlanks(s) ==
    IF s # <<>> /\ IsBlank(Head(s)) THEN DropBlanks(Tail(s)) ELSE s

Reverse(s) == [i \in DOMAIN s |-> s[Len(s) + 1 - i]]

RECURSIVE Join(_)
Join(s) == IF s = <<>> THEN "" ELSE Head(s) \o Join(Tail(s))

\* text.trim()
Trim(text) == Join(Reverse(DropBlanks(Reverse(DropBlanks(text)))))

\* (el && el.textContent || '').trim()
TextOf(el) == Trim(IF el.present THEN el.text ELSE <<>>)

\* A div.dc-result-row: its span.dc-vocab, span.dc-vocab_kana and
\* span.dc-english (the text without the grey spans), the texts of the
\* span.dc-english-grey elements, and the src attributes of the source
\* elements of its first player ("" for a source without src).
ResultRow(vocab, kana, english, grey, sources) ==
    [vocab |-> vocab, kana |-> kana, english |-> english, grey |-> grey,
     sources |-> sources]

\* Rows of the page: a full one with two audio sources; one without a vocab
\* span; one with neither term nor kana; one with a term only.
ResultRows ==
    { ResultRow(El(<<" ", "ie", " ">>), El(<<"ie-kana">>), El(<<"house", " ">>),
                << <<" ", "(n)">> >>, <<"https://a/ie.mp3", "", "https://a/ie.ogg">>),
      ResultRow(NoEl, El(<<"uchi">>), El(<<"home">>), <<>>, <<"https://a/uchi.mp3">>),
      ResultRow(El(<<" ">>), NoEl, El(<<"nothing">>), <<>>, <<>>),
      ResultRow(El(<<"ke">>), NoEl, NoEl, <<>>, <<>>) }

PodReplies == UNION { [1..n -> ResultRows] : n \in 0..MaxRows }

\* The JapanesePodEntry of row i of the page (223-255).
JapanesePodEntry(row, i) ==
    [term |-> TextOf(row.vocab), kana |-> TextOf(row.kana),
     audio |-> SelectSeq(row.sources, LAMBDA src : src # ""),
     english |-> TextOf(row.english),
     english_info |-> [k \in DOMAIN row.grey |-> Trim(row.grey[k])],
     order |-> i - 1]

\* rows.forEach((row, order) => ...): the rows with a term or a kana, each
\* with its position among all rows of the page.
RECURSIVE PodResults(_, _)
PodResults(rows, i) ==
    IF i > Len(rows) THEN <<>>
    ELSE LET it == JapanesePodEntry(rows[i], i)
         IN  (IF OrElse(it.term, it.kana) # "" THEN <<it>> ELSE <<>>)
                 \o PodResults(rows, i + 1)

\* An adapter that keeps the audio URLs as links of the sense.
EntryFromJapanesePod_AudioLinks(data) ==
    Entry(EntrySource.JapanesePod, "", data.term, data.kana, <<>>, <<>>,
          <<EntryEnglish(<<data.english>>, <<>>, data.english_info,
                         [k \in DOMAIN data.audio |-> Link(data.audio[k], "audio")])>>,
          <<>>, 0 - data.order)

\* EntryFromJapanesePod(data) (174-194)
EntryFromJapanesePod(data) ==
    Entry(EntrySource.JapanesePod, "", data.term, data.kana, <<>>, <<>>,
          <<EntryEnglish(<<data.english>>, <<>>, data.english_info, <<>>)>>,
          <<>>, 0 - data.order)

(***************************************************************************)
(* The terms of an imported dictionary and EntryFromImportedTerm           *)
(* (part_022:48-50, 129-160).                                              *)
(***************************************************************************)
\* Term bank rows: the row of the house; tags that repeat within termTags,
\* within rules and across both, and differ by case; a tag with a name that
\* Object.prototype has; termTags that begin with a blank; definitionTags
\* with two blanks in a row.
HouseRow == <<"ie", "ie-kana", <<>>, <<>>, 100, <<"house">>, 42, <<"P", " ", "n">>>>

TermRows ==
    { HouseRow,
      <<"taberu", "taberu-kana", <<"v1", " ", " ", "vt">>, <<"v1", " ", "P", " ", "v1">>, 5,
        <<"to eat">>, 7, <<"P", " ", "v1", " ", "p", " ", "P">>>>,
      <<"tsukuru", "tsukuru-kana", <<"n">>, <<"n">>, 0 - 3, <<"to build">>, 42,
        <<"constructor", " ", "n">>>>,
      <<"uchi", "", <<>>, <<"n">>, 0, <<"home">>, 1, <<" ", "n">>>> }

TermLists == UNION { [1..n -> TermRows] : n \in 0..MaxRows }

\* The ImportedDict importDict returns for one term bank with these rows.
DictOfTerms(rows) ==
    ParseData(Summary, BasePath([ext |-> ""]),
              <<[name |-> FileName("term", "_bank_1", ".json"), json |-> rows]>>).out

\* A uniqueStrings that keeps every string.
uniqueStrings_KeepAll(src, dup) == src

\* uniqueStrings(src) (151-160) from the point where dup holds the strings of
\* the set dup: dup is created as {}, so dup[item] is also truthy for a name
\* that Object.prototype has.
RECURSIVE uniqueStrings(_, _)
uniqueStrings(src, dup) ==
    IF src = <<>> THEN <<>>
    ELSE IF Head(src) \in dup \/ Head(src) \in ObjectPrototypeKeys
         THEN uniqueStrings(Tail(src), dup)
         ELSE <<Head(src)>> \o uniqueStrings(Tail(src), dup \cup {Head(src)})

\* An adapter that takes the rules for the tags of the definition.
EntryFromImportedTerm_RulesAsTags(origin, data) ==
    Entry(EntrySource.Import, origin, data.expression, data.reading, <<>>, <<>>,
          <<EntryEnglish(data.glossary, data.rules, <<>>, <<>>)>>,
          uniqueStrings(data.termTags \o data.rules, {}), data.score)

\* EntryFromImportedTerm(origin, data) (129-149)
EntryFromImportedTerm(origin, data) ==
    Entry(EntrySource.Import, origin, data.expression, data.reading, <<>>, <<>>,
          <<EntryEnglish(data.glossary, data.definitionTags, <<>>, <<>>)>>,
          uniqueStrings(data.termTags \o data.rules, {}), data.score)

\* ImportedDict.getEntries() (48-50)
getEntries(dict) ==
    [i \in DOMAIN dict.terms |-> EntryFromImportedTerm(dict.title, dict.terms[i])]

(***************************************************************************)
(* A lookup: a source is queried (queryJisho, queryJapanesePod) or a       *)
(* dictionary imported, and its adapter is applied to each row delivered.  *)
(***************************************************************************)
\* The lookup when the reply of the source has arrived.
Lookup(source, reply) ==
    [source |-> source,
     pc |-> "query",        \* query, rows, entries or failed
     reply |-> reply,       \* body of the reply, rows of the page or of the bank
     rows |-> <<>>,         \* what the query returned
     dict |-> <<>>,         \* <<the ImportedDict>> of an import
     entries |-> <<>>,      \* what the adapter made of the rows
     error |-> ""]

\* queryJisho from the reply on (177-193); the audio of the search page
\* (195-250) changes japanese[].audio only.
QueryJisho ==
    /\ lookup.source = "jisho"
    /\ lookup.pc = "query"
    /\ lookup' =
          IF lookup.reply.status # 200
          THEN [lookup EXCEPT !.pc = "failed", !.error = "Invalid Jisho response"]
          ELSE [lookup EXCEPT !.pc = "rows", !.rows = Sanitize(lookup.reply.data)]
    /\ UNCHANGED <<codecVars, importVars, clientVars>>

\* queryJapanesePod from the page on (218-257)
QueryJapanesePod ==
    /\ lookup.source = "pod"
    /\ lookup.pc = "query"
    /\ lookup' = [lookup EXCEPT !.pc = "rows", !.rows = PodResults(lookup.reply, 1)]
    /\ UNCHANGED <<codecVars, importVars, clientVars>>

\* importDict of a dictionary with one term bank
ImportTerms ==
    /\ lookup.source = "import"
    /\ lookup.pc = "query"
    /\ LET dict == DictOfTerms(lookup.reply)
       IN  lookup' = [lookup EXCEPT !.pc = "rows", !.rows = dict.terms,
                                    !.dict = <<dict>>]
    /\ UNCHANGED <<codecVars, importVars, clientVars>>

\* rows.map(EntryFromJisho), which throws what the adapter throws
FromJisho ==
    /\ lookup.source = "jisho"
    /\ lookup.pc = "rows"
    /\ lookup' =
          IF \E i \in DOMAIN lookup.rows : lookup.rows[i].japanese = <<>>
          THEN [lookup EXCEPT !.pc = "failed", !.error = "TypeError"]
          ELSE [lookup EXCEPT !.pc = "entries",
                   !.entries = [i \in DOMAIN lookup.rows |->
                                   EntryFromJisho(lookup.rows[i])]]
    /\ UNCHANGED <<codecVars, importVars, clientVars>>

\* rows.map(EntryFromJapanesePod)
FromJapanesePod ==
    /\ lookup.source = "pod"
    /\ lookup.pc = "rows"
    /\ lookup' = [lookup EXCEPT !.pc = "entries",
                     !.entries = [i \in DOMAIN lookup.rows |->
                                     EntryFromJapanesePod(lookup.rows[i])]]
    /\ UNCHANGED <<codecVars, importVars, clientVars>>

\* dict.getEntries()
GetEntries ==
    /\ lookup.source = "import"
    /\ lookup.pc = "rows"
    /\ lookup' = [lookup EXCEPT !.pc = "entries",
                                !.entries = getEntries(lookup.dict[1])]
    /\ UNCHANGED <<codecVars, importVars, clientVars>>

InitLookup ==
    /\ CodecIdle
    /\ imp = ImportIdle
    /\ load = LoadIdle
    /\ \/ \E reply \in JishoReplies : lookup = Lookup("jisho", reply)
       \/ \E reply \in PodReplies : lookup = Lookup("pod", reply)
       \/ \E reply \in TermLists : lookup = Lookup("import", reply)
    /\ ClientIdle

NextLookup ==
    \/ QueryJisho
    \/ QueryJapanesePod
    \/ ImportTerms
    \/ FromJisho
    \/ FromJapanesePod
    \/ GetEntries

SpecLookup == InitLookup /\ [][NextLookup]_vars

(***************************************************************************)
(* The client's dictionary store (src/web/client/src/store/dictionary.ts): *)
(* the reducer and the three epics that dictionaryEpic merges.  An action  *)
(* is reduced first and delivered to the epics after.  The actions SEARCH  *)
(* and REQUEST are dispatched from outside the store; SUCCESS and FAILURE  *)
(* are emitted by the epics.  An ajax call is a record [id, query, tries]: *)
(* id tells the calls of one query apart, tries counts the subscriptions   *)
(* retry has made to it.                                                   *)
(***************************************************************************)
MaxRequests == 2

Queries == {"", "a", "b"}

search(q) == [type |-> "@dictionary/search", query |-> q, result |-> <<>>]

request(q) == [type |-> "@dictionary/request", query |-> q, result |-> <<>>]

\* result is optional: <<>> when the action creator is called without it.
success(q, result) == [type |-> "@dictionary/success", query |-> q, result |-> result]

failure(q) == [type |-> "@dictionary/failure", query |-> q, result |-> <<>>]

\* The body of the server's reply to a search for q, as far as the store
\* can tell replies apart: the expression it answers.
DictResult(q) == [expression |-> q]

reducer(state, action) ==
    CASE action.type = "@dictionary/request" ->
            [state EXCEPT !.loading = TRUE, !.query = action.query]
      [] action.type = "@dictionary/success" ->
            [state EXCEPT !.loading = FALSE, !.failed = FALSE,
                          !.data = action.result, !.query = action.query]
      [] action.type = "@dictionary/failure" ->
            [state EXCEPT !.loading = FALSE, !.failed = TRUE]
      [] OTHER -> state

searchURL(q) == "/search/" \o q

\* dispatch(search({query})): the reducer has no case for it; debounceTime
\* drops the query it held and holds this one; takeUntil completes every
\* subscribed ajax call, which emits nothing more and is aborted.
Search(q) ==
    /\ store' = reducer(store, search(q))
    /\ timer' = <<q>>
    /\ flights' = {}
    /\ UNCHANGED <<pathname, requested>>
    /\ UNCHANGED <<codecVars, importVars, lookup>>

\* The 200 ms of debounceTime pass: the held query goes on to the filter
\* and, when its URL is not the current one, to push(url), which the router
\* makes the current location.
searchEpic ==
    /\ timer # <<>>
    /\ timer' = <<>>
    /\ pathname' = IF searchURL(timer[1]) # pathname
                     THEN searchURL(timer[1])
                     ELSE pathname
    /\ store' = store
    /\ UNCHANGED <<flights, requested>>
    /\ UNCHANGED <<codecVars, importVars, lookup>>

\* dispatch(request({query})) with a query: reduced, then mergeMap
\* subscribes to a new ajax call next to the ones already subscribed.
requestEpic(q) ==
    /\ q # ""
    /\ Len(requested) < MaxRequests
    /\ requested' = Append(requested, q)
    /\ store' = reducer(store, request(q))
    /\ flights' = flights \cup {[id |-> Len(requested) + 1, query |-> q, tries |-> 1]}
    /\ UNCHANGED <<timer, pathname>>
    /\ UNCHANGED <<codecVars, importVars, lookup>>

\* dispatch(request({query: ''})): reduced, then emptyEpic emits
\* success('') at once, without a result.
emptyEpic(q) ==
    /\ q = ""
    /\ Len(requested) < MaxRequests
    /\ requested' = Append(requested, q)
    /\ store' = reducer(reducer(store, request(q)), success(q, <<>>))
    /\ UNCHANGED <<flights, timer, pathname>>
    /\ UNCHANGED <<codecVars, importVars, lookup>>

\* An ajax call gets its response: map makes success(query, response) of
\* it and the call completes.
AjaxResponse(f) ==
    /\ f \in flights
    /\ flights' = flights \ {f}
    /\ store' = reducer(store, success(f.query, <<DictResult(f.query)>>))
    /\ UNCHANGED <<timer, pathname, requested>>
    /\ UNCHANGED <<codecVars, importVars, lookup>>

\* An ajax call fails: retry(2) subscribes to it again, twice at most;
\* the third failure reaches catchError, which emits failure(query).
AjaxError(f) ==
    /\ f \in flights
    /\ IF f.tries <= 2
         THEN /\ flights' = (flights \ {f}) \cup {[f EXCEPT !.tries = f.tries + 1]}
              /\ store' = store
         ELSE /\ flights' = flights \ {f}
              /\ store' = reducer(store, failure(f.query))
    /\ UNCHANGED <<timer, pathname, requested>>
    /\ UNCHANGED <<codecVars, importVars, lookup>>

InitStore ==
    /\ CodecIdle
    /\ imp = ImportIdle
    /\ load = LoadIdle
    /\ lookup = LookupIdle
    /\ store = INITIAL_STATE
    /\ flights = {}
    /\ timer = <<>>
    /\ pathname \in {"/", searchURL("a")}
    /\ requested = <<>>

NextStore ==
    \/ \E q \in Queries : Search(q)
    \/ searchEpic
    \/ \E q \in Queries : requestEpic(q)
    \/ \E q \in Queries : emptyEpic(q)
    \/ \E f \in flights : AjaxResponse(f)
    \/ \E f \in flights : AjaxError(f)

SpecStore == InitStore /\ [][NextStore]_vars

\* Every HTTP call completes and every timer fires: a subscribed ajax call
\* is eventually answered or fails, and the debounce time eventually
\* passes.  Nothing obliges anybody to dispatch SEARCH or REQUEST.
SpecStoreFair ==
    /\ InitStore
    /\ [][NextStore]_vars
    /\ WF_vars(\E f \in flights : AjaxResponse(f) \/ AjaxError(f))
    /\ WF_vars(searchEpic)

(***************************************************************************)
(* Claims about the codec, checked under Spec.                             *)
(***************************************************************************)
CurrentMap == NameMap(names, index)

\* The codes of a row, in the order of CodedStrings of its entry.
CodesOf(row) ==
    <<row[2]>> \o row[7]
        \o Flatten([i \in DOMAIN row[9] |-> row[9][i][2] \o row[9][i][3]])

\* The <<string, code>> pairs of call k: each coded string of its entries with
\* the code at its place in the output.
CodePairs(k) ==
    UNION { LET strings == CodedStrings(inputs[k][i])
                codes == CodesOf(outputs[k][i])
            IN  { <<strings[j], codes[j]>> : j \in DOMAIN strings } :
            i \in DOMAIN inputs[k] }

\* C1: whenever unserializeEntries has been applied to the output of
\* serializeEntries with the same NameMap, it returned (did not throw) a list
\* equal to the entries that were serialized.
C1_RoundTrip ==
    decoded.call # 0 =>
        /\ ~decoded.threw
        /\ decoded.entries = inputs[decoded.call]

\* C2: for every code c from 1 to len(names) of a NameMap that serializeEntries
\* populated, mapIndex decodes c to names[c-1] (position c counting from 1).
C2_DecodeInverse ==
    \A c \in 1..Len(names) : mapIndex(CurrentMap, c) = names[c]

\* C3: a non-empty origin, tag or info string that occurs in two batches that
\* were serialized with the same NameMap has the same code in both outputs.
C3_SharedCodes ==
    LET pairs == [k \in DOMAIN outputs |-> CodePairs(k)]
    IN  \A k1 \in DOMAIN outputs : \A k2 \in DOMAIN outputs :
            k1 < k2 =>
                \A p \in pairs[k1] :
                    p[1] # "" => \A q \in pairs[k2] : q[1] = p[1] => q[2] = p[2]

\* A second batch repeats a non-empty string of the first.
C3_Witness ==
    /\ Len(outputs) = 2
    /\ \E p \in CodePairs(1) : \E q \in CodePairs(2) : p[1] = q[1] /\ p[1] # ""

\* C4: for every string s for which index[s] is a number i, i is a position
\* of names (counting from 1) and the string at that position is s.
C4_IndexInvariant ==
    \A s \in NameUniverse :
        LET got == IndexGet(index, s)
        IN  (got.found /\ got.val # ObjectFn) =>
                /\ got.val \in 1..Len(names)
                /\ names[got.val] = s

\* Two calls have put several names into the NameMap.
C4_Witness ==
    /\ Len(inputs) = 2
    /\ Len(names) >= 3
    /\ \E s \in NameUniverse : s \in DOMAIN index /\ index[s] = Len(names)

\* C5: an entry whose origin is "" is serialized with 0 as its origin code,
\* and unserializeEntries on that output with the same NameMap returns an
\* entry at the same place whose origin is "".
C5_Sentinel ==
    \A k \in DOMAIN inputs : \A i \in DOMAIN inputs[k] :
        inputs[k][i].origin = "" =>
            /\ outputs[k][i][2] = 0
            /\ decoded.call = k =>
                  /\ ~decoded.threw
                  /\ decoded.entries[i].origin = ""

\* C6: mapName codes "" as 0 and leaves the NameMap alone; it appends a
\* non-empty string that is not yet in the NameMap to names and returns the
\* new length of names; it returns the existing code of a string that is in
\* the NameMap and leaves names alone.
C6_MapNameRule ==
    \A name \in NameUniverse :
        LET r == mapName(CurrentMap, name)
        IN  /\ name = "" => (r.code = 0 /\ r.nm = CurrentMap)
            /\ (name # "" /\ name \notin DOMAIN index) =>
                  /\ r.nm.names = Append(names, name)
                  /\ r.code = Len(names) + 1
            /\ name \in DOMAIN index =>
                  /\ r.code = index[name]
                  /\ r.nm.names = names

(***************************************************************************)
(* Claims about importDict, checked under SpecImport, and about loadDicts, *)
(* checked under SpecBatch.                                                *)
(***************************************************************************)
RecognizedKinds == {"term", "kanji", "tag", "kanji_meta", "term_meta"}

\* The rows of the bank files of one kind, in the order the files are listed.
RowsOfKind(input, kind) ==
    LET banks == BankFiles(input)
    IN  Flatten([i \in DOMAIN banks |->
            IF KindOf(banks[i].name) = kind THEN banks[i].content.json ELSE <<>>])

\* The terms in the order in which they were loaded.
LoadedTerms(input) ==
    LET rows == RowsOfKind(input, "term")
    IN  [i \in DOMAIN rows |-> ImportedTerm(rows[i])]

\* The tags, likewise.
LoadedTags(input) ==
    LET rows == RowsOfKind(input, "tag")
    IN  [i \in DOMAIN rows |-> ImportedTag(rows[i])]

WithSequence(terms, v) == SelectSeq(terms, LAMBDA t : t.sequence = v)

\* C7: the terms of a returned ImportedDict are in ascending order of
\* sequence, and the terms of any one sequence number are the loaded terms
\* of that number in the order in which they were loaded.
C7_TermsSorted ==
    \A d \in DOMAIN imp :
        imp[d].pc = "done" =>
            LET terms == imp[d].result[1].terms
                loaded == LoadedTerms(imp[d].input)
            IN  /\ \A i \in DOMAIN terms : \A j \in DOMAIN terms :
                      i < j => terms[i].sequence <= terms[j].sequence
                /\ \A v \in { loaded[i].sequence : i \in DOMAIN loaded } :
                      WithSequence(terms, v) = WithSequence(loaded, v)
                /\ Len(terms) = Len(loaded)

\* A dictionary was returned whose rows came as 5, 1, 3 and then 3, 1: out of
\* order, and with two different terms for the sequence numbers 1 and 3.
C7_Witness ==
    \E d \in DOMAIN imp :
        /\ imp[d].pc = "done"
        /\ RowsOfKind(imp[d].input, "term") = Rows531 \o Rows31
        /\ [i \in 1..5 |-> imp[d].result[1].terms[i].expression]
              = <<"b", "e", "c", "d", "a">>

\* The manifest and every bank file of a recognized kind are well formed.
RestIsWellFormed(input) ==
    /\ input.index = "ok"
    /\ \A i \in DOMAIN BankFiles(input) :
          KindOf(BankFiles(input)[i].name) \in RecognizedKinds
              => BankFiles(input)[i].content.parses

\* C8: bank files of unrecognized kinds never make importDict fail, whatever
\* they contain, and a returned ImportedDict holds none of their rows: its
\* collections hold the rows of the files of their own kind and nothing else.
C8_UnknownKindTolerated ==
    \A d \in DOMAIN imp :
        RestIsWellFormed(imp[d].input) =>
            /\ imp[d].pc # "failed"
            /\ imp[d].pc = "done" =>
                  LET out == imp[d].result[1]
                  IN  /\ Len(out.terms) = Len(RowsOfKind(imp[d].input, "term"))
                      /\ out.tags = LoadedTags(imp[d].input)
                      /\ out.kanjis = <<>>
                      /\ out.termMeta = <<>>
                      /\ out.kanjiMeta = <<>>

\* Every bank file of an unrecognized kind holds well-formed JSON.
UnknownKindsParse(input) ==
    \A i \in DOMAIN BankFiles(input) :
        KindOf(BankFiles(input)[i].name) \notin RecognizedKinds
            => BankFiles(input)[i].content.parses

\* C8, amended: bank files of unrecognized kinds whose text is well-formed
\* JSON never make importDict fail, and a returned ImportedDict holds none of
\* the rows of a file of an unrecognized kind, whatever it contains.
C8_UnknownKindParsedTolerated ==
    \A d \in DOMAIN imp :
        /\ (RestIsWellFormed(imp[d].input) /\ UnknownKindsParse(imp[d].input))
              => imp[d].pc # "failed"
        /\ imp[d].pc = "done" =>
              LET out == imp[d].result[1]
              IN  /\ Len(out.terms) = Len(RowsOfKind(imp[d].input, "term"))
                  /\ out.tags = LoadedTags(imp[d].input)
                  /\ out.kanjis = <<>>
                  /\ out.termMeta = <<>>
                  /\ out.kanjiMeta = <<>>

\* A dictionary with rows in foo_bank.json and in a term bank was returned:
\* with the rows of the term bank only, and a warning for the kind foo.
C8_Witness ==
    \E d \in DOMAIN imp :
        /\ imp[d].pc = "done"
        /\ RowsOfKind(imp[d].input, "foo") = Rows31
        /\ RowsOfKind(imp[d].input, "term") = Rows531
        /\ Len(imp[d].result[1].terms) = 3
        /\ imp[d].log = <<"foo">>

\* The error classes of the specification for what importDict rejects with:
\* the Error of line 251, a rejection by fs, a SyntaxError of JSON.parse.
ErrorClass(error) ==
    CASE error = "NotFoundError" -> "MissingManifest"
      [] error = "ENOENT" -> "IOError"
      [] error = "EACCES" -> "IOError"
      [] error = "SyntaxError" -> "ParseError"
      [] OTHER -> "none"

\* C9: importDict on a folder or archive without index.json never returns an
\* ImportedDict and starts no read of a bank file, and when it fails it fails
\* with MissingManifest.
C9_MissingManifest ==
    \A d \in DOMAIN imp :
        imp[d].input.index = "absent" =>
            /\ imp[d].pc # "done"
            /\ imp[d].result = <<>>
            /\ imp[d].issued = {}
            /\ imp[d].pc = "failed" => ErrorClass(imp[d].error) = "MissingManifest"

\* loadDicts and every importDict call of it have come to their end.
BatchSettled ==
    /\ load.pc \in {"rejected", "processed"}
    /\ \A d \in DOMAIN imp : imp[d].pc \in {"done", "failed"}

\* C10: once a batch is through, every dictionary whose import returned is
\* among the dictionaries loadDicts got and processed, whether or not the
\* import of another dictionary failed.
C10_PartialSuccess ==
    BatchSettled =>
        \A d \in DOMAIN imp :
            imp[d].pc = "done" =>
                /\ load.pc = "processed"
                /\ \E k \in DOMAIN load.dicts : load.dicts[k] = imp[d].result[1]

\* The manifest or one of the bank files cannot be read or is not JSON.
Broken(input) ==
    \/ input.index # "ok"
    \/ \E i \in DOMAIN BankFiles(input) :
          ~(BankFiles(input)[i].content.readable /\ BankFiles(input)[i].content.parses)

\* C11: importDict never returns for a dictionary whose manifest or any of
\* whose bank files fails to be read or parsed; a call that has not returned
\* has handed out no ImportedDict; and a returned ImportedDict holds the rows
\* of every term and tag bank file of the dictionary, never of only some.
C11_AllOrNothing ==
    \A d \in DOMAIN imp :
        /\ Broken(imp[d].input) => imp[d].pc # "done"
        /\ imp[d].pc # "done" => imp[d].result = <<>>
        /\ imp[d].pc = "done" =>
              LET out == imp[d].result[1]
                  loaded == LoadedTerms(imp[d].input)
              IN  /\ Len(imp[d].result) = 1
                  /\ Len(out.terms) = Len(loaded)
                  /\ \A i \in DOMAIN loaded :
                        \E k \in DOMAIN out.terms : out.terms[k] = loaded[i]
                  /\ out.tags = LoadedTags(imp[d].input)

\* A call failed on one bank file after another one, with term rows, had been
\* read and parsed: nothing was returned.
C11_Witness ==
    \E d \in DOMAIN imp :
        /\ imp[d].pc = "failed"
        /\ imp[d].error \in {"SyntaxError", "EACCES"}
        /\ \E i \in imp[d].read :
              /\ KindOf(BankFiles(imp[d].input)[i].name) = "term"
              /\ BankFiles(imp[d].input)[i].content.json # <<>>
        /\ imp[d].result = <<>>

\* What importDict returns for a dictionary, by the listing alone.
ImportedFrom(input) ==
    LET banks == BankFiles(input)
    IN  ParseData(Summary, BasePath(input),
                  [i \in DOMAIN banks |->
                      [name |-> banks[i].name, json |-> banks[i].content.json]]).out

\* C12: while reads of bank files are outstanding no ImportedDict with rows
\* exists; a returned ImportedDict was built after every bank file was read
\* and parsed, its terms are the sort of the terms of all term bank files,
\* and it is the same whatever the order in which the reads completed.
C12_ConcurrentReads ==
    \A d \in DOMAIN imp :
        /\ imp[d].pc \in {"manifest", "readdir", "banks"} => imp[d].result = <<>>
        /\ imp[d].pc = "done" =>
              /\ imp[d].read = DOMAIN BankFiles(imp[d].input)
              /\ imp[d].result[1].terms = sortTerms(LoadedTerms(imp[d].input))
              /\ imp[d].result[1] = ImportedFrom(imp[d].input)

\* Two term banks whose reads completed in the reverse order of the listing:
\* the terms are those of the listing order.
C12_Witness ==
    \E d \in DOMAIN imp :
        /\ imp[d].pc = "done"
        /\ imp[d].order = <<2, 1>>
        /\ RowsOfKind(imp[d].input, "term") = Rows531 \o Rows31
        /\ [i \in 1..5 |-> imp[d].result[1].terms[i].expression]
              = <<"b", "e", "c", "d", "a">>

(***************************************************************************)
(* Claims about the adapters, checked under SpecLookup.                    *)
(***************************************************************************)
\* No element of s occurs twice.
NoRepeat(s) == \A i \in DOMAIN s : \A j \in DOMAIN s : i # j => s[i] # s[j]

\* The elements of s from position i on that occur at no earlier position.
RECURSIVE FirstFrom(_, _)
FirstFrom(s, i) ==
    IF i > Len(s) THEN <<>>
    ELSE (IF \E j \in 1..(i - 1) : s[j] = s[i] THEN <<>> ELSE <<s[i]>>)
             \o FirstFrom(s, i + 1)

\* C13: every entry made by EntryFromJisho, EntryFromJapanesePod or
\* EntryFromImportedTerm has as many extra_readings as extra_forms.
C13_ParallelArrays ==
    lookup.pc = "entries" =>
        \A i \in DOMAIN lookup.entries :
            Len(lookup.entries[i].extra_forms) = Len(lookup.entries[i].extra_readings)

\* Entries of jisho.org rows with two alternate forms besides the first, and
\* with none.
C13_Witness ==
    /\ lookup.source = "jisho"
    /\ lookup.pc = "entries"
    /\ \E i \in DOMAIN lookup.entries : Len(lookup.entries[i].extra_forms) = 2
    /\ \E i \in DOMAIN lookup.entries : lookup.entries[i].extra_readings = <<>>

\* C14: EntryFromJisho and EntryFromJapanesePod give every row the score
\* -order, and in the entries of one reply an earlier entry never has a
\* lower score than a later one.
C14_ScoreConvention ==
    (lookup.pc = "entries" /\ lookup.source \in {"jisho", "pod"}) =>
        /\ Len(lookup.entries) = Len(lookup.rows)
        /\ \A i \in DOMAIN lookup.entries :
              lookup.entries[i].score = 0 - lookup.rows[i].order
        /\ \A i \in DOMAIN lookup.entries : \A j \in DOMAIN lookup.entries :
              i < j => lookup.entries[i].score >= lookup.entries[j].score

\* Rows with order 0, 1 and 2 were given the scores 0, -1 and -2.
C14_Witness ==
    /\ lookup.pc = "entries"
    /\ lookup.source \in {"jisho", "pod"}
    /\ [i \in DOMAIN lookup.rows |-> lookup.rows[i].order] = <<0, 1, 2>>
    /\ [i \in DOMAIN lookup.entries |-> lookup.entries[i].score] = <<0, 0 - 1, 0 - 2>>

\* C15: every entry made of the rows that queryJisho, queryJapanesePod or the
\* importer delivers has an expression that is a non-empty string.
C15_ExpressionNeverEmpty ==
    lookup.pc = "entries" =>
        \A i \in DOMAIN lookup.entries :
            lookup.entries[i].expression \notin {"", Undefined}

\* C16: no tag name occurs twice in the tags of an entry made by the importer
\* or by either adapter.
C16_TagsDeduplicated ==
    lookup.pc = "entries" =>
        \A i \in DOMAIN lookup.entries : NoRepeat(lookup.entries[i].tags)

\* The entry-level tags of a jisho.org row, as the row holds them.
RowTags(row) == row.jlpt \o row.tags \o (IF row.is_common THEN <<"P">> ELSE <<>>)

\* C16, amended: no tag name occurs twice in the tags of an entry made by the
\* importer or by EntryFromJapanesePod; the tags of an entry made by
\* EntryFromJisho repeat a name exactly when the JLPT tags, the row tags and
\* the "P" of its row do.
C16_TagsDeduplicatedOnImport ==
    lookup.pc = "entries" =>
        \A i \in DOMAIN lookup.entries :
            IF lookup.source = "jisho"
            THEN NoRepeat(lookup.entries[i].tags) <=> NoRepeat(RowTags(lookup.rows[i]))
            ELSE NoRepeat(lookup.entries[i].tags)

\* An entry was made of a term whose termTags and rules repeat a name, and
\* holds several tags.
C16_Witness ==
    /\ lookup.source = "import"
    /\ lookup.pc = "entries"
    /\ \E i \in DOMAIN lookup.entries :
          /\ ~NoRepeat(lookup.rows[i].termTags \o lookup.rows[i].rules)
          /\ Len(lookup.entries[i].tags) >= 3

\* C17: the tags of the entry of an ImportedTerm are the strings of termTags
\* followed by rules, each at its first occurrence only, two strings being
\* the same when they are equal character by character.
C17_ImportedTermTags ==
    (lookup.pc = "entries" /\ lookup.source = "import") =>
        \A i \in DOMAIN lookup.entries :
            lookup.entries[i].tags
                = FirstFrom(lookup.rows[i].termTags \o lookup.rows[i].rules, 1)

\* C18: getEntries returns one entry per term, in the order of terms, each
\* with source Import, the title as origin, the expression, reading and score
\* of its term, no extra forms or readings, and one EntryEnglish with the
\* glossary and the definitionTags of the term and neither info nor links;
\* the row of the house gives tags P, n, no english tags and score 100.
C18_TermToEntry ==
    (lookup.pc = "entries" /\ lookup.source = "import") =>
        LET dict == lookup.dict[1]
        IN  /\ Len(lookup.entries) = Len(dict.terms)
            /\ \A i \in DOMAIN lookup.entries :
                  LET e == lookup.entries[i]
                      t == dict.terms[i]
                  IN  /\ e.source = EntrySource.Import
                      /\ e.origin = dict.title
                      /\ e.expression = t.expression
                      /\ e.reading = t.reading
                      /\ e.score = t.score
                      /\ e.extra_forms = <<>>
                      /\ e.extra_readings = <<>>
                      /\ e.english
                            = <<EntryEnglish(t.glossary, t.definitionTags, <<>>, <<>>)>>
                      /\ t = ImportedTerm(HouseRow) =>
                            /\ e.tags = <<"P", "n">>
                            /\ e.english[1].tags = <<>>
                            /\ e.score = 100

\* The entries of a bank that lists the row of the house before two other
\* rows of lower sequence numbers: the entry of the house is the last.
C18_Witness ==
    /\ lookup.source = "import"
    /\ lookup.pc = "entries"
    /\ Len(lookup.entries) = 3
    /\ lookup.reply[1] = HouseRow
    /\ lookup.entries[1].expression = "uchi"
    /\ lookup.entries[2].english[1].tags = <<"v1", "vt">>
    /\ lookup.entries[3].tags = <<"P", "n">>
    /\ lookup.entries[3].score = 100

\* C19: for a row with at least one alternate form EntryFromJisho gives
\* source Jisho, origin "", the word and reading of the first form as
\* expression and reading, the words and readings of the other forms in
\* their order as extra_forms and extra_readings, and as tags the JLPT tags,
\* then the row tags, then "P" exactly if the row is common.
C19_JishoEntryMapping ==
    (lookup.pc = "entries" /\ lookup.source = "jisho") =>
        \A i \in DOMAIN lookup.entries :
            LET e == lookup.entries[i]
                forms == lookup.rows[i].japanese
            IN  Len(forms) >= 1 =>
                    /\ e.source = EntrySource.Jisho
                    /\ e.origin = ""
                    /\ e.expression = forms[1].word
                    /\ e.reading = forms[1].reading
                    /\ e.extra_forms = [k \in 1..(Len(forms) - 1) |-> forms[k + 1].word]
                    /\ e.extra_readings
                          = [k \in 1..(Len(forms) - 1) |-> forms[k + 1].reading]
                    /\ e.tags = RowTags(lookup.rows[i])

\* The entries of a common row with three forms and of a row that is not
\* common.
C19_Witness ==
    /\ lookup.source = "jisho"
    /\ lookup.pc = "entries"
    /\ \E i \in DOMAIN lookup.entries :
          /\ lookup.entries[i].expression = "ie"
          /\ lookup.entries[i].extra_forms = <<"uchi", "ya">>
          /\ lookup.entries[i].extra_readings = <<"uchi", "ya-kana">>
          /\ lookup.entries[i].tags = <<"jlpt-n5", "wanikani8", "P">>
    /\ \E i \in DOMAIN lookup.entries :
          /\ ~lookup.rows[i].is_common
          /\ lookup.entries[i].tags = <<"wanikani8", "wanikani8">>

\* C20: EntryFromJisho makes one EntryEnglish per sense, in the order of the
\* senses, with the english definitions as glossary, the parts of speech
\* followed by the sense tags as tags, the info of the sense as info, and as
\* links one see:// link per cross-reference, in order, followed by the links
\* of the sense, in order.
C20_JishoSenseMapping ==
    (lookup.pc = "entries" /\ lookup.source = "jisho") =>
        \A i \in DOMAIN lookup.entries :
            LET english == lookup.entries[i].english
                senses == lookup.rows[i].senses
            IN  /\ Len(english) = Len(senses)
                /\ \A k \in DOMAIN senses :
                      /\ english[k].glossary = senses[k].english_definitions
                      /\ english[k].tags = senses[k].parts_of_speech \o senses[k].tags
                      /\ english[k].info = senses[k].info
                      /\ english[k].links
                            = [n \in DOMAIN senses[k].see_also |->
                                  [uri |-> "see://" \o senses[k].see_also[n],
                                   text |-> senses[k].see_also[n]]]
                              \o [n \in DOMAIN senses[k].links |->
                                    [uri |-> senses[k].links[n].url,
                                     text |-> senses[k].links[n].text]]

\* An entry of two senses: the first with a cross-reference and a link, the
\* second with two cross-references.
C20_Witness ==
    /\ lookup.source = "jisho"
    /\ lookup.pc = "entries"
    /\ \E i \in DOMAIN lookup.entries :
          /\ Len(lookup.entries[i].english) = 2
          /\ lookup.entries[i].english[1].links
                = <<Link("see://uchi", "uchi"), Link("https://w/ie", "Wikipedia")>>
          /\ lookup.entries[i].english[1].tags = <<"Noun", "Usually kana">>
          /\ lookup.entries[i].english[2].links
                = <<Link("see://kazoku", "kazoku"), Link("see://ie", "ie")>>

\* The strings an entry holds, in any of its fields.
StringsOf(e) ==
    {e.origin, e.expression, e.reading}
        \cup Range(e.extra_forms) \cup Range(e.extra_readings) \cup Range(e.tags)
        \cup UNION { Range(e.english[k].glossary) \cup Range(e.english[k].tags)
                        \cup Range(e.english[k].info)
                        \cup { e.english[k].links[n].uri : n \in DOMAIN e.english[k].links }
                        \cup { e.english[k].links[n].text : n \in DOMAIN e.english[k].links } :
                     k \in DOMAIN e.english }

\* C21: for every row EntryFromJapanesePod gives source JapanesePod, origin
\* "", the term as expression, the kana as reading, no extra forms, extra
\* readings or tags, and one EntryEnglish whose glossary is the english
\* string alone, with no tags, the english_info as info and no links; no
\* audio URL of the row is anywhere in the entry.
C21_JapanesePodMapping ==
    (lookup.pc = "entries" /\ lookup.source = "pod") =>
        \A i \in DOMAIN lookup.entries :
            LET e == lookup.entries[i]
                row == lookup.rows[i]
            IN  /\ e.source = EntrySource.JapanesePod
                /\ e.origin = ""
                /\ e.expression = row.term
                /\ e.reading = row.kana
                /\ e.extra_forms = <<>>
                /\ e.extra_readings = <<>>
                /\ e.tags = <<>>
                /\ Len(e.english) = 1
                /\ e.english[1].glossary = <<row.english>>
                /\ e.english[1].tags = <<>>
                /\ e.english[1].info = row.english_info
                /\ e.english[1].links = <<>>
                /\ Range(row.audio) \cap StringsOf(e) = {}

\* The entry of a row with two audio URLs and a grey note.
C21_Witness ==
    /\ lookup.source = "pod"
    /\ lookup.pc = "entries"
    /\ \E i \in DOMAIN lookup.entries :
          /\ lookup.rows[i].audio = <<"https://a/ie.mp3", "https://a/ie.ogg">>
          /\ lookup.entries[i].expression = "ie"
          /\ lookup.entries[i].english[1].glossary = <<"house">>
          /\ lookup.entries[i].english[1].info = <<"(n)">>

(***************************************************************************)
(* Further claims about the codec, checked under Spec.                     *)
(***************************************************************************)
\* C22: serializeEntries returns one array per entry, in the order of the
\* input, of the form [source, originCode, expression, reading, extra_forms,
\* extra_readings, tagCodes, score, englishArray], each element of
\* englishArray being [glossary, tagCodes, infoCodes, linkPairs] with
\* linkPairs holding [uri, text]; origin, tags and info are replaced by codes
\* (0 for "", else the position of the string in names) and every other
\* field is the field of the entry.
C22_SerializedLayout ==
    \A k \in DOMAIN outputs :
        /\ Len(outputs[k]) = Len(inputs[k])
        /\ \A i \in DOMAIN outputs[k] :
              LET row == outputs[k][i]
                  e == inputs[k][i]
                  strings == CodedStrings(e)
                  codes == CodesOf(row)
              IN  /\ Len(row) = 9
                  /\ row[1] = e.source
                  /\ row[3] = e.expression
                  /\ row[4] = e.reading
                  /\ row[5] = e.extra_forms
                  /\ row[6] = e.extra_readings
                  /\ Len(row[7]) = Len(e.tags)
                  /\ row[8] = e.score
                  /\ Len(row[9]) = Len(e.english)
                  /\ \A n \in DOMAIN e.english :
                        /\ Len(row[9][n]) = 4
                        /\ row[9][n][1] = e.english[n].glossary
                        /\ Len(row[9][n][2]) = Len(e.english[n].tags)
                        /\ Len(row[9][n][3]) = Len(e.english[n].info)
                        /\ row[9][n][4]
                              = [m \in DOMAIN e.english[n].links |->
                                    <<e.english[n].links[m].uri, e.english[n].links[m].text>>]
                  /\ Len(codes) = Len(strings)
                  /\ \A j \in DOMAIN strings :
                        /\ strings[j] = "" => codes[j] = 0
                        /\ strings[j] \notin ObjectPrototypeKeys \cup {""} =>
                              /\ codes[j] \in 1..Len(names)
                              /\ names[codes[j]] = strings[j]

\* A call returned the arrays of two entries, the second with an extra form,
\* a link and the origin code 0.
C22_Witness ==
    \E k \in DOMAIN outputs :
        /\ Len(outputs[k]) = 2
        /\ outputs[k][1][2] = 1
        /\ outputs[k][2][2] = 0
        /\ outputs[k][2][5] = <<"ke">>
        /\ outputs[k][2][9][1][4] = << <<"see://ie", "ie">> >>

(***************************************************************************)
(* Further claims about importDict.                                        *)
(***************************************************************************)
\* The name is <kind>_bank.json or <kind>_bank_<n>.json for a kind of bank.
FollowsConvention(name) ==
    /\ name.ext = ".json"
    /\ name.suffix \in {"_bank", "_bank_1", "_bank_2"}
    /\ name.stem \in RecognizedKinds

\* The rows of the files of the listing that are named as banks of one kind.
ConventionRows(input, kind) ==
    Flatten([i \in DOMAIN input.files |->
        IF FollowsConvention(input.files[i].name) /\ input.files[i].name.stem = kind
        THEN input.files[i].content.json ELSE <<>>])

\* C23: the collections of a returned ImportedDict hold the rows of the files
\* named <kind>_bank.json or <kind>_bank_<n>.json, each in the collection of
\* its kind, all of them, and the rows of no other file.
C23_BankFileSelection ==
    \A d \in DOMAIN imp :
        imp[d].pc = "done" =>
            LET out == imp[d].result[1]
                terms == ConventionRows(imp[d].input, "term")
                tags == ConventionRows(imp[d].input, "tag")
            IN  /\ out.terms = sortTerms([i \in DOMAIN terms |-> ImportedTerm(terms[i])])
                /\ out.tags = [i \in DOMAIN tags |-> ImportedTag(tags[i])]
                /\ out.kanjis = <<>>
                /\ out.termMeta = <<>>
                /\ out.kanjiMeta = <<>>

\* The kinds of the bank files of a dictionary that are no kinds of bank.
UnknownKinds(input) ==
    { KindOf(BankFiles(input)[i].name) : i \in DOMAIN BankFiles(input) }
        \ RecognizedKinds

Words(tokens) == SelectSeq(tokens, LAMBDA t : ~IsBlank(t))

\* C25: the definitionTags, rules and termTags of every imported term are
\* the words of the corresponding string of its row, in order, and none of
\* them is the empty string, also for a string with leading, trailing or
\* repeated blanks.
C25_TagSplitting ==
    (lookup.source = "import" /\ lookup.pc \in {"rows", "entries"}) =>
        \A i \in DOMAIN lookup.rows :
            LET t == lookup.rows[i]
            IN  /\ "" \notin Range(t.definitionTags) \cup Range(t.rules)
                                \cup Range(t.termTags)
                /\ \E k \in DOMAIN lookup.reply :
                      /\ lookup.reply[k][1] = t.expression
                      /\ t.definitionTags = Words(lookup.reply[k][3])
                      /\ t.rules = Words(lookup.reply[k][4])
                      /\ t.termTags = Words(lookup.reply[k][8])

(***************************************************************************)
(* Claims about the NameMap over several calls, checked under Spec.        *)
(***************************************************************************)
IsPrefix(a, b) == Len(a) <= Len(b) /\ SubSeq(b, 1, Len(a)) = a

\* C26: every call of serializeEntries leaves the names that were there at
\* their positions and adds new ones at the end only, leaves every string
\* that had a code with that code, and leaves names as long as index has
\* keys.
C26_AppendOnly ==
    [][ /\ IsPrefix(names, names')
        /\ \A s \in DOMAIN index : s \in DOMAIN index' /\ index'[s] = index[s]
        /\ Len(names') = Cardinality(DOMAIN index') ]_vars

\* A second call has reused a code of the first and added a name with a
\* higher code than any of the first.
C26_Witness ==
    /\ Len(outputs) = 2
    /\ \E p \in CodePairs(1) : \E q \in CodePairs(2) : p[2] >= 1 /\ q[2] = p[2]
    /\ \E q \in CodePairs(2) : \A p \in CodePairs(1) : q[2] > p[2]
    /\ Len(names) = Cardinality(DOMAIN index)

\* C27: a call of serializeEntries with the entries of the call before it,
\* on the NameMap that call has populated, returns what that call returned
\* and leaves names and index as they are.
C27_Idempotent ==
    [][ (/\ inputs # <<>>
         /\ Len(inputs') = Len(inputs) + 1
         /\ inputs'[Len(inputs')] = inputs[Len(inputs)])
            => /\ outputs'[Len(outputs')] = outputs[Len(outputs)]
               /\ names' = names
               /\ index' = index ]_vars

\* The same two entries were serialized twice and three names are coded.
C27_Witness ==
    /\ Len(inputs) = 2
    /\ inputs[1] = inputs[2]
    /\ Len(inputs[1]) = 2
    /\ outputs[1] = outputs[2]
    /\ Len(names) >= 3

\* C28: in the list that queryJisho or queryJapanesePod returned, the row at
\* position i, counting from 0, has order i, and the entry made of it has
\* the score -i.
C28_OrderIsPosition ==
    (lookup.source \in {"jisho", "pod"} /\ lookup.pc \in {"rows", "entries"}) =>
        \A i \in DOMAIN lookup.rows :
            /\ lookup.rows[i].order = i - 1
            /\ lookup.pc = "entries" => lookup.entries[i].score = 0 - (i - 1)

(***************************************************************************)
(* Claims about the client's dictionary store, checked under SpecStore     *)
(* and SpecStoreFair.                                                      *)
(***************************************************************************)
LatestRequest == requested[Len(requested)]

\* What the store holds of a REQUEST for q that has succeeded.
ResultOf(q) == IF q = "" THEN <<>> ELSE <<DictResult(q)>>

\* C29: once every REQUEST that was dispatched has completed (no ajax call
\* is subscribed any more), the store's query is the query of the most
\* recently dispatched REQUEST, and the data of a store that has settled
\* on a success is the result of that REQUEST: a response that arrives
\* late for an older REQUEST is not what the store ends with.
C29_NoStaleResult ==
    (requested # <<>> /\ flights = {}) =>
        /\ store.query = LatestRequest
        /\ (~store.loading /\ ~store.failed) => store.data = ResultOf(LatestRequest)

\* C30: a store that is loading eventually stops loading, given that every
\* HTTP call eventually completes, also when a SEARCH is dispatched while
\* a call is in flight.
C30_LoadingEnds == store.loading ~> ~store.loading

====
